---------------------------- MODULE Spec2Model ----------------------------
(***************************************************************************)
(* Soil_Moisture: the Earth Engine scripts of the repository, at ONE pixel.*)
(*                                                                         *)
(* NDVI_Interpolation.js (also inlined at the end of S1_SM.js) is a        *)
(* straight-line script: every `var` is a collection computed once from    *)
(* the previous ones.  The model has one variable per collection of the    *)
(* script and one action per statement that builds a collection.           *)
(*                                                                         *)
(* An image is a record of its properties (time = system:time_start in     *)
(* days after startDate, type) and of its bands at the pixel.  A band      *)
(* value is a pixel [mask, num, den]: mask = 1 and the exact rational      *)
(* num/den (den > 0, lowest terms), or NoData (mask = 0).  Band            *)
(* arithmetic is exact; the float rounding of the platform is not          *)
(* modelled.                                                               *)
(***************************************************************************)
EXTENDS Integers, Sequences, FiniteSets

\* ------------------------------------------------------------------ bounds
\* Length of the period in days (the script uses 360).
TotalDays == 7
\* Largest time-window in days the model tries (the script uses 60).
MaxWindow == 3
\* Most observed images in the period.
MaxObs == 3
\* Observed NDVI values are the integers 0..MaxNdvi.
MaxNdvi == 1
\* Smoothed values are the integers 0..MaxSmoothed.
MaxSmoothed == 2
\* Where the two clippers are compared, smoothed values are 0..MaxLevel.
MaxLevel == 3

\* The frames of a Sentinel-1 series fall on days 1..MaxSeriesDay.
MaxSeriesDay == 5
\* Largest SPECKLE_FILTER_NR_OF_IMAGES the model tries (the scripts use 10).
MaxNrOfImages == 3
\* Largest SPECKLE_FILTER_KERNEL_SIZE the model tries (the scripts use 9).
MaxKernelSize == 4
\* A Sentinel-1 raster is RasterSide x RasterSide pixels.
RasterSide == 3
\* Amplitudes are dark (1), medium (2) or bright (MaxAmplitude).
MaxAmplitude == 4



\* Interval of the time grid: one blank image every n days.
n == 2

VARIABLES
    pc,                      \* the last statement of the script that has run
    days,                    \* the time-window of maxDiffFilter, in days
    ndviCol,                 \* Step-1: the observed NDVI images
    initCol,                 \* Step-2: the blank images of the time grid
    mergedCol,               \* Step-3: ndviCol.merge(initCol) + timestamp band
    join1Result,             \* Step-3: + property 'after'
    join2Result,             \* Step-3: + property 'before'
    filtered,                \* Step-4: the images of type 'interpolated'
    interpolatedCol,         \* Step-4: filtered.map(interpolateImages)
    smoothed,                \* the output of the Savitzky-Golay filter
    highPercentile,          \* 95 (NDVI_Interpolation.js) or 75 (S1_SM.js)
    P_05_NDVI,               \* the 5th percentile of smoothed
    P_75_NDVI,               \* the 75th percentile of smoothed
    P_95_NDVI,               \* the 95th percentile of smoothed
    ndviFilteredCollection,  \* smoothed.map(filterPercentiles)
    Allimages,               \* ndviCol.merge(ndviFilteredCollection)
    frames,                  \* the Sentinel-1 series: the frames' days
    nrOfImages,              \* SPECKLE_FILTER_NR_OF_IMAGES
    target,                  \* position of the frame being filtered, 0: none
    neighbours,              \* the temporal neighbourhood chosen for it
    kernelSize,              \* SPECKLE_FILTER_KERNEL_SIZE
    framework,               \* SPECKLE_FILTER_FRAMEWORK: "MONO" or "MULTI"
    error,                   \* the error filterSpeckle failed with, or "none"
    filteredSeries,          \* the filtered series: the output frames' days
    speckleFilter,           \* SPECKLE_FILTER: the kind of mono-temporal filter
    rasters,                 \* the rasters of the frames (one band)
    filteredRaster,          \* the filtered raster of the target frame
    parameter,               \* the driver's parameter dictionary
    s1,                      \* s1_preprocces[0]: the unfiltered collection
    s1_preprocces,           \* s1_preprocces[1]: the processed collection
    s1_view,                 \* the unfiltered collection, as displayed
    s1_preprocces_view,      \* the processed collection, as displayed
    visparam,                \* the bands of the visualisation parameters
    comb,                    \* the bands of the collection that is charted
    missingBands,            \* the bands selected from an image without them
    asset                    \* the collection written by toAsset, or NoAsset

\* -------------------------------------------------------- pixels and bands
NoData == [mask |-> 0, num |-> 0, den |-> 1]

Abs(x) == IF x < 0 THEN -x ELSE x

RECURSIVE GCD(_, _)
GCD(a, b) == IF b = 0 THEN a ELSE GCD(b, a % b)

\* The pixel holding num/den, in lowest terms (den # 0).
Px(num, den) ==
    LET g == GCD(Abs(num), Abs(den))
        s == IF den < 0 THEN -1 ELSE 1
    IN  [mask |-> 1, num |-> (s * num) \div g, den |-> (s * den) \div g]

\* ee.Image binary operators: the result is masked where either input is.
add(a, b) ==
    IF a.mask = 0 \/ b.mask = 0 THEN NoData
    ELSE Px(a.num * b.den + b.num * a.den, a.den * b.den)

subtract(a, b) ==
    IF a.mask = 0 \/ b.mask = 0 THEN NoData
    ELSE Px(a.num * b.den - b.num * a.den, a.den * b.den)

multiply(a, b) ==
    IF a.mask = 0 \/ b.mask = 0 THEN NoData
    ELSE Px(a.num * b.num, a.den * b.den)

\* Mutant of divide: a division by 0 gives a masked pixel.
divideMasked(a, b) ==
    IF a.mask = 0 \/ b.mask = 0 \/ b.num = 0 THEN NoData
    ELSE Px(a.num * b.den, a.den * b.num)

\* '/' of an expression: ee division returns 0 for a division by 0.
divide(a, b) ==
    IF a.mask = 0 \/ b.mask = 0 THEN NoData
    ELSE IF b.num = 0 THEN Px(0, 1)
    ELSE Px(a.num * b.den, a.den * b.num)

\* Mutant of unmask: unmask() without a fill image, which fills with 0.
unmaskWithZero(image, other) ==
    IF image.mask = 1 THEN image
    ELSE IF other.mask = 1 THEN other ELSE Px(0, 1)

\* image.unmask(other): where image is masked, the mask and value of other.
unmask(image, other) == IF image.mask = 0 THEN other ELSE image

\* Order on unmasked pixels.
Less(a, b) == a.num * b.den < b.num * a.den

\* ------------------------------------------------------------- Step-1/2
\* An observed image: cloud-masked (NoData) or an NDVI value at the pixel.
ObsPixels == {NoData} \cup {Px(v, 1) : v \in 0 .. MaxNdvi}

\* filter(ee.Filter.date(startDate, endDate)): days 0 .. TotalDays - 1.
ObsDays == 0 .. TotalDays - 1

obsImage(t, p) == [time |-> t, type |-> "observed", ndvi |-> p]

RECURSIVE SeqOfDays(_)
\* The days of S in increasing order.
SeqOfDays(S) ==
    IF S = {} THEN <<>>
    ELSE LET m == CHOOSE x \in S : \A y \in S : x <= y
         IN  <<m>> \o SeqOfDays(S \ {m})

\* The observed collections: at most MaxObs images, in time order, no two
\* at the same instant.
ObsCollections ==
    UNION { { [i \in 1 .. Len(SeqOfDays(D)) |->
                 obsImage(SeqOfDays(D)[i], f[SeqOfDays(D)[i]])] :
              f \in [D -> ObsPixels] } :
            D \in {D \in SUBSET ObsDays : Cardinality(D) <= MaxObs} }

\* Mutant of daysToInterpolate: the sequence counted in steps, n, 2n, ...,
\* one step for every n days begun.
daysToInterpolateSteps ==
    LET cnt == ((TotalDays - 1) \div n) + 1
    IN  [k \in 1 .. cnt |-> k * n]

\* ee.List.sequence(1, totalDays, n)
daysToInterpolate ==
    LET cnt == ((TotalDays - 1) \div n) + 1
    IN  [k \in 1 .. cnt |-> 1 + (k - 1) * n]

\* ee.Image() is fully masked; every blank image is tagged 'interpolated'.
initImages ==
    [k \in 1 .. Len(daysToInterpolate) |->
        [time |-> daysToInterpolate[k], type |-> "interpolated",
         ndvi |-> NoData]]

\* --------------------------------------------------------------- Step-3
\* Mutant of merge: the operands exchanged.
mergeSwapped(col1, col2) == col2 \o col1

\* ee.ImageCollection.merge: the images of the first collection, then the
\* images of the second.
merge(col1, col2) == col1 \o col2

\* image.mask(): the mask as an image, 0 or 1, itself unmasked.
mask(p) == Px(p.mask, 1)

\* image.updateMask(m): masked wherever the mask image m is 0 or is masked.
updateMask(p, m) ==
    IF p.mask = 0 \/ m.mask = 0 \/ m.num = 0 THEN NoData ELSE p

\* Mutant of addTimestamp: the band 'timestamp' without updateMask.
addTimestampUnmasked(image) ==
    [time |-> image.time, type |-> image.type, ndvi |-> image.ndvi,
     timestamp |-> Px(image.time, 1)]

\* The function mapped over mergedCol: adds the band 'timestamp', the
\* image's own time masked like its first band.
addTimestamp(image) ==
    [time |-> image.time, type |-> image.type, ndvi |-> image.ndvi,
     timestamp |-> updateMask(Px(image.time, 1), mask(image.ndvi))]

\* Mutant of maxDiffFilter: the time-window left out of the condition.
maxDiffFilterOff(left, right) == TRUE

\* ee.Filter.maxDifference on system:time_start (difference in days).
maxDiffFilter(left, right) == Abs(left.time - right.time) <= days

lessEqFilter(left, right) == left.time <= right.time

greaterEqFilter(left, right) == left.time >= right.time

filter1(left, right) == maxDiffFilter(left, right) /\ lessEqFilter(left, right)

filter2(left, right) ==
    maxDiffFilter(left, right) /\ greaterEqFilter(left, right)

RECURSIVE SortByTime(_, _, _)
\* The positions S of col ordered by system:time_start, ascending or
\* descending; images of equal time keep their collection order.
SortByTime(col, S, ascending) ==
    IF S = {} THEN <<>>
    ELSE LET first == CHOOSE i \in S : \A j \in S :
                 \/ IF ascending THEN col[i].time < col[j].time
                                 ELSE col[i].time > col[j].time
                 \/ col[i].time = col[j].time /\ i <= j
         IN  <<first>> \o SortByTime(col, S \ {first}, ascending)

\* ee.Join.saveAll(...).apply(primary, secondary, condition) saves, for
\* every primary image, the list of the matching secondary images ordered
\* by time.  A match list holds references: positions in the secondary
\* collection.
\* join1: matchesKey 'after', ascending false.
join1(image) ==
    [time |-> image.time, type |-> image.type, ndvi |-> image.ndvi,
     timestamp |-> image.timestamp,
     after |-> SortByTime(mergedCol,
                          {j \in 1 .. Len(mergedCol) :
                              filter1(image, mergedCol[j])},
                          FALSE)]

\* Mutant of join2: the 'before' list in descending order.
join2Descending(image) ==
    [time |-> image.time, type |-> image.type, ndvi |-> image.ndvi,
     timestamp |-> image.timestamp, after |-> image.after,
     before |-> SortByTime(join1Result,
                           {j \in 1 .. Len(join1Result) :
                               filter2(image, join1Result[j])},
                           FALSE)]

\* join2: matchesKey 'before', ascending true.
join2(image) ==
    [time |-> image.time, type |-> image.type, ndvi |-> image.ndvi,
     timestamp |-> image.timestamp, after |-> image.after,
     before |-> SortByTime(join1Result,
                           {j \in 1 .. Len(join1Result) :
                               filter2(image, join1Result[j])},
                           TRUE)]

\* saveAll is an inner join: a primary image without a match is dropped.
HasAfter(image) == image.after # <<>>

HasBefore(image) == image.before # <<>>

\* --------------------------------------------------------------- Step-4
\* Mutant of isInterpolated: the filter on 'type' left out.
isInterpolatedOff(image) == TRUE

isInterpolated(image) == image.type = "interpolated"

\* Mutant of mosaicPixel: the last image of the list on top, masked or not.
mosaicPixelTop(pixels) ==
    IF pixels = <<>> THEN NoData ELSE pixels[Len(pixels)]

RECURSIVE mosaicPixel(_)
\* mosaic() at the pixel: the last unmasked image of the list is on top.
mosaicPixel(pixels) ==
    IF pixels = <<>> THEN NoData
    ELSE LET top == pixels[Len(pixels)]
         IN  IF top.mask = 1 THEN top
             ELSE mosaicPixel(SubSeq(pixels, 1, Len(pixels) - 1))

\* ee.ImageCollection.fromImages(list).mosaic(), band by band.
mosaic(col, list) ==
    [ndvi |-> mosaicPixel([k \in 1 .. Len(list) |-> col[list[k]].ndvi]),
     timestamp |->
         mosaicPixel([k \in 1 .. Len(list) |-> col[list[k]].timestamp])]

beforeMosaic(image) == mosaic(join1Result, image.before)

afterMosaic(image) == mosaic(mergedCol, image.after)

\* Mutant of timeRatio: the distance to the after image, (t2 - t) / (t2 - t1).
timeRatioToAfter(t, t1, t2) == divide(subtract(t2, t), subtract(t2, t1))

\* Mutant of timeRatio: the quotient inverted, (t2 - t1) / (t - t1).
timeRatioInverted(t, t1, t2) == divide(subtract(t2, t1), subtract(t, t1))

\* '(t - t1) / (t2 - t1)'
timeRatio(t, t1, t2) == divide(subtract(t, t1), subtract(t2, t1))

\* Mutant of interpolated: the value of the one side found when the other
\* side is masked.
interpolatedOrNearest(before, after, ratio) ==
    IF after.mask = 0 THEN before
    ELSE IF before.mask = 0 THEN after
    ELSE add(before, multiply(subtract(after, before), ratio))

\* beforeMosaic.add(afterMosaic.subtract(beforeMosaic).multiply(timeRatio))
interpolated(before, after, ratio) ==
    add(before, multiply(subtract(after, before), ratio))

interpolateImages(image) ==
    LET bm == beforeMosaic(image)
        am == afterMosaic(image)
        ratio == timeRatio(Px(image.time, 1), bm.timestamp, am.timestamp)
    IN  [time |-> image.time, type |-> image.type,
         ndvi |-> unmask(image.ndvi, interpolated(bm.ndvi, am.ndvi, ratio)),
         timestamp |-> unmask(image.timestamp,
                              interpolated(bm.timestamp, am.timestamp, ratio))]

\* ------------------------------------------- smoothing and clipping
\* oeel.ImageCollection.SavatskyGolayFilter is a library outside the
\* repository.  Its output is taken as an input of the rest of the script:
\* one image per image of its input, at the same time, whose band
\* smoothed_ndvi (d_0_ndvi renamed) is any smoothed value or masked.
SmoothedPixels == {NoData} \cup {Px(v, 1) : v \in 0 .. MaxSmoothed}

SmoothedOutputs(col) ==
    { [k \in 1 .. Len(col) |->
          [time |-> col[k].time, type |-> col[k].type,
           smoothed_ndvi |-> f[k]]] :
      f \in [1 .. Len(col) -> SmoothedPixels] }

RECURSIVE SortedValues(_, _)
\* The unmasked values of band smoothed_ndvi over the images at positions
\* S of col, in increasing order.
SortedValues(col, S) ==
    IF S = {} THEN <<>>
    ELSE LET first == CHOOSE i \in S : \A j \in S :
                 \/ Less(col[i].smoothed_ndvi, col[j].smoothed_ndvi)
                 \/ /\ ~Less(col[j].smoothed_ndvi, col[i].smoothed_ndvi)
                    /\ i <= j
         IN  <<col[first].smoothed_ndvi>> \o SortedValues(col, S \ {first})

Unmasked(col) == {i \in 1 .. Len(col) : col[i].smoothed_ndvi.mask = 1}

\* smoothed.reduce(ee.Reducer.percentile([p])) at the pixel.  The reducer
\* is the platform's; how it places the p-th percentile between two order
\* statistics is not fixed here: of N unmasked values x[1] <= ... <= x[N]
\* the result is any value from x[max(1, floor(pN/100))] to
\* x[min(N, ceil(pN/100) + 1)], which holds for the nearest-rank and for
\* the interpolating definitions alike.  No unmasked value: masked.
percentile(col, p) ==
    LET x == SortedValues(col, Unmasked(col))
        N == Len(x)
        lo == IF (p * N) \div 100 < 1 THEN 1 ELSE (p * N) \div 100
        up == ((p * N + 99) \div 100) + 1
        hi == IF up > N THEN N ELSE up
    IN  IF N = 0 THEN {NoData}
        ELSE {Px(v, 1) : v \in x[lo].num .. x[hi].num}

\* A percentile does not decrease with p.
NotAbove(a, b) == (a.mask = 1 /\ b.mask = 1) => ~Less(b, a)

\* image.lt(other), image.gt(other), image.and(other): 1 or 0, masked where
\* either input is masked.
lt(a, b) ==
    IF a.mask = 0 \/ b.mask = 0 THEN NoData
    ELSE IF Less(a, b) THEN Px(1, 1) ELSE Px(0, 1)

gt(a, b) ==
    IF a.mask = 0 \/ b.mask = 0 THEN NoData
    ELSE IF Less(b, a) THEN Px(1, 1) ELSE Px(0, 1)

and(a, b) ==
    IF a.mask = 0 \/ b.mask = 0 THEN NoData
    ELSE IF a.num # 0 /\ b.num # 0 THEN Px(1, 1) ELSE Px(0, 1)

\* image.selfMask(): masked where the image is 0.
selfMask(p) == updateMask(p, p)

\* image.lte(other), image.gte(other)
lte(a, b) ==
    IF a.mask = 0 \/ b.mask = 0 THEN NoData
    ELSE IF Less(b, a) THEN Px(0, 1) ELSE Px(1, 1)

gte(a, b) ==
    IF a.mask = 0 \/ b.mask = 0 THEN NoData
    ELSE IF Less(a, b) THEN Px(0, 1) ELSE Px(1, 1)

\* Mutant of clip: the band closed, a sample equal to a threshold kept.
clipClosedBand(p, low, high) ==
    updateMask(p, selfMask(and(lte(p, high), gte(p, low))))

\* Mutant of clip: gt for lt in the test against the high threshold.
clipAboveHigh(p, low, high) ==
    updateMask(p, selfMask(and(gt(p, high), gt(p, low))))

\* Mutant of clip: the test against the high threshold left out.
clipLowOnly(p, low, high) == updateMask(p, selfMask(gt(p, low)))

\* The body of filterPercentiles at the pixel, for thresholds low and high.
clip(p, low, high) ==
    LET bool == and(lt(p, high), gt(p, low))
        boolMask == selfMask(bool)
    IN  updateMask(p, boolMask)

\* The high threshold of the running copy of the script.
P_high_NDVI == IF highPercentile = 95 THEN P_95_NDVI ELSE P_75_NDVI

filterPercentiles(image) ==
    [time |-> image.time, type |-> image.type,
     smoothed_ndvi |-> clip(image.smoothed_ndvi, P_05_NDVI, P_high_NDVI)]

\* ------------------------------------------- multi-temporal speckle filter
\* users/kennethcassar/S1_SM:speckle_filters is not among the sources; the
\* scripts only call it (speckle.s1_preproc(parameter)).  The choice of the
\* temporal neighbourhood is modelled from section 4.3 of the specification
\* and from the parameter's description in the scripts' headers.
\* A series is the sequence of its frames' days, in time order; positions
\* count from 1, so the frame of index i is at position i + 1.
Series ==
    {SeqOfDays(D) : D \in (SUBSET (1 .. MaxSeriesDay)) \ {{}}}

Preceding(fr, t) == {i \in 1 .. Len(fr) : fr[i] < fr[t]}

Following(fr, t) == {i \in 1 .. Len(fr) : fr[i] > fr[t]}

RECURSIVE NearestFirst(_, _, _)
\* The positions S of fr, the nearest in time to frame t first.
NearestFirst(fr, S, t) ==
    IF S = {} THEN <<>>
    ELSE LET first == CHOOSE i \in S : \A j \in S :
                 Abs(fr[i] - fr[t]) <= Abs(fr[j] - fr[t])
         IN  <<first>> \o NearestFirst(fr, S \ {first}, t)

Take(list, k) == SubSeq(list, 1, IF k < Len(list) THEN k ELSE Len(list))

\* Mutant of selectNeighbours: the oldest frames of the series instead of
\* the ones just before the target.
selectOldestNeighbours(fr, t, N) ==
    LET before == Take([k \in 1 .. t - 1 |-> k], N)
        after == Take(NearestFirst(fr, Following(fr, t), t), N - Len(before))
    IN  before \o after

\* Mutant of selectNeighbours: the remainder counted on from the target
\* and wrapped to the start of the series.
selectNeighboursWrapping(fr, t, N) ==
    LET before == Take(NearestFirst(fr, Preceding(fr, t), t), N)
        after == [k \in 1 .. N - Len(before) |-> ((t + k - 1) % Len(fr)) + 1]
    IN  before \o after

\* Mutant of selectNeighbours: only the frames before the target, nothing
\* taken from the frames after it.
selectPrecedingOnly(fr, t, N) ==
    Take(NearestFirst(fr, Preceding(fr, t), t), N)

\* The N frames just before frame t; when fewer precede it, the remainder
\* from the frames after t, the nearest first.
selectNeighbours(fr, t, N) ==
    LET before == Take(NearestFirst(fr, Preceding(fr, t), t), N)
        after == Take(NearestFirst(fr, Following(fr, t), t), N - Len(before))
    IN  before \o after

\* ---------------------------------------------- speckle filter pipeline
\* Section 4.4, modelled from the specification: filterSpeckle(series,
\* config) checks the configuration, then filters one frame after the other.
\* Window (section 3): the side length is odd and at least 3.
MinKernelSize == 3

Frameworks == {"MONO", "MULTI"}

\* Mutant of validConfig: only the sign of the window size is checked.
validConfigPositive(k, fw, N) == k > 0 /\ (fw = "MULTI" => N >= 1)

\* "Fails with ConfigError if window size is even or < 3, or if N < 1 when
\* framework is MULTI."
validConfig(k, fw, N) ==
    /\ k % 2 = 1
    /\ k >= MinKernelSize
    /\ (fw = "MULTI" => N >= 1)

\* Mutant of filteredFrame: the timestamp of the newest frame that went into
\* the estimate, as a reduction over the neighbourhood would leave it.
filteredFrameNewest(fr, t, nb) ==
    LET used == {fr[t]} \cup {fr[nb[k]] : k \in 1 .. Len(nb)}
    IN  CHOOSE d \in used : \A e \in used : e <= d

\* The filtered frame keeps the timestamp of the frame it was made from,
\* whatever the neighbourhood nb.
filteredFrame(fr, t, nb) == fr[t]

\* ------------------------------------------------------ raster statistics
\* Sections 4.1 and 4.2, modelled from the specification.  A raster is a
\* function from Pixels to amplitudes, exact rationals as for the bands
\* above.  The scenes are a rectangle of one amplitude on a background of
\* another: homogeneous areas, point targets, bars and straight edges.
Pixels == (1 .. RasterSide) \X (1 .. RasterSide)

Amplitudes == {Px(v, 1) : v \in {1, 2, MaxAmplitude}}

scene(bg, fg, x1, x2, y1, y2) ==
    [p \in Pixels |->
        IF p[1] >= x1 /\ p[1] <= x2 /\ p[2] >= y1 /\ p[2] <= y2
        THEN fg ELSE bg]

Rasters ==
    {scene(bg, fg, x1, x2, y1, y2) :
        bg \in Amplitudes, fg \in Amplitudes,
        x1 \in 1 .. RasterSide, x2 \in 1 .. RasterSide,
        y1 \in 1 .. RasterSide, y2 \in 1 .. RasterSide}

\* The window of side MinKernelSize centred on p; near the raster edge the
\* effective window is reduced to the pixels inside the raster.
HalfWindow == (MinKernelSize - 1) \div 2

Window(p) ==
    {q \in Pixels : /\ Abs(q[1] - p[1]) <= HalfWindow
                    /\ Abs(q[2] - p[2]) <= HalfWindow}

RECURSIVE Sum(_, _)
Sum(r, S) ==
    IF S = {} THEN Px(0, 1)
    ELSE LET q == CHOOSE q \in S : TRUE
         IN  add(r[q], Sum(r, S \ {q}))

RECURSIVE SumOfSquares(_, _)
SumOfSquares(r, S) ==
    IF S = {} THEN Px(0, 1)
    ELSE LET q == CHOOSE q \in S : TRUE
         IN  add(multiply(r[q], r[q]), SumOfSquares(r, S \ {q}))

\* Mutant of localMean: the sum over the pixels inside the raster divided by
\* the size of the full window, as if the raster were padded with zeros.
localMeanZeroPadded(r, S) ==
    divide(Sum(r, S), Px(MinKernelSize * MinKernelSize, 1))

\* Local mean over the pixels S of raster r.
localMean(r, S) == divide(Sum(r, S), Px(Cardinality(S), 1))

\* Local variance, E[x^2] - E[x]^2.
localVariance(r, S) ==
    LET mu == localMean(r, S)
    IN  subtract(divide(SumOfSquares(r, S), Px(Cardinality(S), 1)),
                 multiply(mu, mu))

\* The local statistics over S: mean, variance, and the square of the
\* coefficient of variation, CV^2 = variance / mean^2 (amplitudes are
\* positive, so the mean is).
statistics(r, S) ==
    LET mu == localMean(r, S)
        var == subtract(divide(SumOfSquares(r, S), Px(Cardinality(S), 1)),
                        multiply(mu, mu))
    IN  [mean |-> mu, variance |-> var,
         cv2 |-> divide(var, multiply(mu, mu))]

\* ------------------------------------------------- mono-temporal filters
\* Number of looks of the acquisition; Cu^2 = 1 / looks.
Looks == 5

squaredCu == Px(1, Looks)

\* The edge threshold of Gamma-MAP, Cmax^2 = 2 Cu^2.
squaredCmax == Px(2, Looks)

\* Half-width of the sigma range of Lee-Sigma, as a fraction of the mean.
sigma == Px(9, 10)

FilterKinds == {"BOXCAR", "LEE", "GAMMA MAP", "REFINED LEE", "LEE SIGMA"}

\* Mutant of leeFactor: the factor without the clamp.
leeFactorUnclamped(cv2) ==
    IF cv2.num = 0 THEN Px(0, 1)
    ELSE subtract(Px(1, 1), divide(squaredCu, cv2))

\* k = 1 - Cu^2/CV^2 clamped to [0,1]; a patch with CV <= Cu is homogeneous.
leeFactor(cv2) ==
    IF ~Less(squaredCu, cv2) THEN Px(0, 1)
    ELSE LET k == subtract(Px(1, 1), divide(squaredCu, cv2))
         IN  IF Less(k, Px(0, 1)) THEN Px(0, 1)
             ELSE IF Less(Px(1, 1), k) THEN Px(1, 1) ELSE k

\* mu + k (I - mu), with the statistics st of the patch.
leeEstimate(I, st) ==
    add(st.mean, multiply(leeFactor(st.cv2), subtract(I, st.mean)))

boxcar(r, p) == localMean(r, Window(p))

lee(r, p) == leeEstimate(r[p], statistics(r, Window(p)))

\* The closed form of the MAP estimate takes a square root, which exact
\* arithmetic does not have: the estimate is one of these points between
\* the local mean (0) and the pixel value (1).
MapWeights == {Px(0, 1), Px(1, 2), Px(1, 1)}

\* Homogeneous patch: the mean; edge: the pixel itself; between: the MAP
\* estimate.
gammaMap(r, p, w) ==
    LET st == statistics(r, Window(p))
    IN  IF ~Less(squaredCu, st.cv2) THEN st.mean
        ELSE IF ~Less(st.cv2, squaredCmax) THEN r[p]
        ELSE add(st.mean, multiply(w, subtract(r[p], st.mean)))

\* The four directional sub-windows: the lines through the centre.
Directions == <<<<1, 0>>, <<0, 1>>, <<1, 1>>, <<1, -1>>>>

Line(p, d) ==
    {q \in Window(p) : \E k \in -HalfWindow .. HalfWindow :
        q = <<p[1] + k * d[1], p[2] + k * d[2]>>}

\* The first direction of minimum variance.
minVarianceDirection(r, p) ==
    LET v == <<localVariance(r, Line(p, Directions[1])),
               localVariance(r, Line(p, Directions[2])),
               localVariance(r, Line(p, Directions[3])),
               localVariance(r, Line(p, Directions[4]))>>
    IN  CHOOSE i \in 1 .. Len(Directions) :
            /\ \A j \in 1 .. Len(Directions) : ~Less(v[j], v[i])
            /\ \A j \in 1 .. i - 1 : Less(v[i], v[j])

refinedLee(r, p) ==
    LET S == Line(p, Directions[minVarianceDirection(r, p)])
    IN  leeEstimate(r[p], statistics(r, S))

\* The pixels of the window within the sigma range around the mean; the
\* whole window when none is.
sigmaRange(r, p) ==
    LET mu == localMean(r, Window(p))
        low == multiply(mu, subtract(Px(1, 1), sigma))
        high == multiply(mu, add(Px(1, 1), sigma))
        S == {q \in Window(p) : ~Less(r[q], low) /\ ~Less(high, r[q])}
    IN  IF S = {} THEN Window(p) ELSE S

leeSigma(r, p) ==
    LET S == sigmaRange(r, p)
    IN  leeEstimate(r[p], statistics(r, S))

\* The chosen filter applied to every pixel of raster r.
monoTemporalFilter(kind, r, w) ==
    [p \in Pixels |->
        CASE kind = "BOXCAR" -> boxcar(r, p)
          [] kind = "LEE" -> lee(r, p)
          [] kind = "GAMMA MAP" -> gammaMap(r, p, w)
          [] kind = "REFINED LEE" -> refinedLee(r, p)
          [] kind = "LEE SIGMA" -> leeSigma(r, p)]

\* Mutant of multiTemporalFilter: the spatial estimate of the target frame
\* alone, the ratios of the neighbourhood left out.
multiTemporalFilterNoRatio(kind, rs, t, nb, w) ==
    monoTemporalFilter(kind, rs[t], w)

\* Section 4.3: the estimate is the target's own spatial estimate mu_t times
\* the mean, over the neighbourhood nb, of the ratios r_i = I_i / mu_i.
multiTemporalFilter(kind, rs, t, nb, w) ==
    LET mu == [i \in 1 .. Len(rs) |-> monoTemporalFilter(kind, rs[i], w)]
        ratio == [i \in 1 .. Len(rs) |->
                    [p \in Pixels |-> divide(rs[i][p], mu[i][p])]]
        used == {nb[k] : k \in 1 .. Len(nb)}
        RatioAt(p) == [i \in 1 .. Len(rs) |-> ratio[i][p]]
    IN  [p \in Pixels |->
            multiply(mu[t][p],
                     divide(Sum(RatioAt(p), used),
                            Px(Cardinality(used), 1)))]

\* ------------------------------------------------------------- the script
interpVars == <<initCol, mergedCol, join1Result, join2Result, filtered,
                interpolatedCol>>

clipVars == <<smoothed, P_05_NDVI, P_75_NDVI, P_95_NDVI,
              ndviFilteredCollection, Allimages>>

rasterVars == <<speckleFilter, rasters, filteredRaster>>

NoRasters ==
    /\ speckleFilter = "none"
    /\ rasters = <<>>
    /\ filteredRaster = <<>>

speckleVars == <<frames, nrOfImages, target, neighbours, kernelSize,
                 framework, error, filteredSeries, rasterVars>>

driverVars == <<parameter, s1, s1_preprocces, s1_view, s1_preprocces_view,
                visparam, comb, missingBands, asset>>

NoCollection == [bands |-> {}, dB |-> 0]

NoAsset == [bands |-> {}, dB |-> 0, exported |-> FALSE]

\* The driver of the Sentinel-1 chain is another script: it does not run here.
NoDriver ==
    /\ parameter = [POLARIZATION |-> "none", FORMAT |-> "none",
                    SAVE_ASSETS |-> FALSE]
    /\ s1 = NoCollection
    /\ s1_preprocces = NoCollection
    /\ s1_view = NoCollection
    /\ s1_preprocces_view = NoCollection
    /\ visparam = {}
    /\ comb = {}
    /\ missingBands = {}
    /\ asset = NoAsset

vars == <<pc, days, highPercentile, ndviCol, interpVars, clipVars,
          speckleVars, driverVars>>

NotYetClipped ==
    /\ P_05_NDVI = NoData
    /\ P_75_NDVI = NoData
    /\ P_95_NDVI = NoData
    /\ ndviFilteredCollection = <<>>
    /\ Allimages = <<>>

\* The speckle filter is another script: it does not run here.
NoSpeckleFilter ==
    /\ frames = <<>>
    /\ nrOfImages = 0
    /\ target = 0
    /\ neighbours = <<>>
    /\ kernelSize = 0
    /\ framework = "none"
    /\ error = "none"
    /\ filteredSeries = <<>>
    /\ NoRasters

\* After Step-1: the observed collection is loaded, nothing else is built.
Init ==
    /\ pc = "ndviCol"
    /\ days \in 1 .. MaxWindow
    /\ highPercentile \in {75, 95}
    /\ ndviCol \in ObsCollections
    /\ initCol = <<>>
    /\ mergedCol = <<>>
    /\ join1Result = <<>>
    /\ join2Result = <<>>
    /\ filtered = <<>>
    /\ interpolatedCol = <<>>
    /\ smoothed = <<>>
    /\ NotYetClipped
    /\ NoDriver
    /\ NoSpeckleFilter

\* var initCol = ee.ImageCollection.fromImages(initImages)
CreateInitCol ==
    /\ pc = "ndviCol"
    /\ initCol' = initImages
    /\ pc' = "initCol"
    /\ UNCHANGED <<days, highPercentile, ndviCol, mergedCol, join1Result,
                   join2Result, filtered, interpolatedCol, clipVars,
                   speckleVars, driverVars>>

\* Mutant of MergeCol: the merged collection kept under the name ndviCol
\* (var ndviCol = ndviCol.merge(initCol)), as the script does with
\* mergedCol and smoothed.
MergeColInPlace ==
    /\ pc = "initCol"
    /\ ndviCol' = merge(ndviCol, initCol)
    /\ mergedCol' = [k \in 1 .. Len(ndviCol') |-> addTimestamp(ndviCol'[k])]
    /\ pc' = "mergedCol"
    /\ UNCHANGED <<days, highPercentile, initCol, join1Result, join2Result,
                   filtered, interpolatedCol, clipVars, speckleVars,
                   driverVars>>

\* var mergedCol = ndviCol.merge(initCol), then the map adding 'timestamp'
MergeCol ==
    /\ pc = "initCol"
    /\ mergedCol' =
          LET col == merge(ndviCol, initCol)
          IN  [k \in 1 .. Len(col) |-> addTimestamp(col[k])]
    /\ pc' = "mergedCol"
    /\ UNCHANGED <<days, highPercentile, ndviCol, initCol, join1Result,
                   join2Result, filtered, interpolatedCol, clipVars,
                   speckleVars, driverVars>>

\* var join1Result = join1.apply(mergedCol, mergedCol, filter1)
ApplyJoin1 ==
    /\ pc = "mergedCol"
    /\ join1Result' =
          SelectSeq([k \in 1 .. Len(mergedCol) |-> join1(mergedCol[k])],
                    HasAfter)
    /\ pc' = "join1Result"
    /\ UNCHANGED <<days, highPercentile, ndviCol, initCol, mergedCol,
                   join2Result, filtered, interpolatedCol, clipVars,
                   speckleVars, driverVars>>

\* var join2Result = join2.apply(join1Result, join1Result, filter2)
ApplyJoin2 ==
    /\ pc = "join1Result"
    /\ join2Result' =
          SelectSeq([k \in 1 .. Len(join1Result) |-> join2(join1Result[k])],
                    HasBefore)
    /\ pc' = "join2Result"
    /\ UNCHANGED <<days, highPercentile, ndviCol, initCol, mergedCol,
                   join1Result, filtered, interpolatedCol, clipVars,
                   speckleVars, driverVars>>

\* var filtered = join2Result.filter(ee.Filter.eq('type', 'interpolated'))
FilterInterpolated ==
    /\ pc = "join2Result"
    /\ filtered' = SelectSeq(join2Result, isInterpolated)
    /\ pc' = "filtered"
    /\ UNCHANGED <<days, highPercentile, ndviCol, initCol, mergedCol,
                   join1Result, join2Result, interpolatedCol, clipVars,
                   speckleVars, driverVars>>

\* var interpolatedCol = filtered.map(interpolateImages).select('ndvi')
Interpolate ==
    /\ pc = "filtered"
    /\ interpolatedCol' =
          [k \in 1 .. Len(filtered) |-> interpolateImages(filtered[k])]
    /\ pc' = "interpolatedCol"
    /\ UNCHANGED <<days, highPercentile, ndviCol, initCol, mergedCol,
                   join1Result, join2Result, filtered, clipVars, speckleVars,
                   driverVars>>

\* var smoothed = oeel.ImageCollection.SavatskyGolayFilter(interpolatedCol,
\* ...).select(['d_0_ndvi'], ['smoothed_ndvi'])
Smooth ==
    /\ pc = "interpolatedCol"
    /\ smoothed' \in SmoothedOutputs(interpolatedCol)
    /\ pc' = "smoothed"
    /\ UNCHANGED <<days, highPercentile, ndviCol, interpVars, P_05_NDVI,
                   P_75_NDVI, P_95_NDVI, ndviFilteredCollection, Allimages,
                   speckleVars, driverVars>>

\* Mutant of ReducePercentiles: the percentiles reduced from the
\* interpolated collection (band ndvi) instead of the smoothed one.
ReducePercentilesOfInterpolated ==
    LET col == [k \in 1 .. Len(interpolatedCol) |->
                  [time |-> interpolatedCol[k].time,
                   type |-> interpolatedCol[k].type,
                   smoothed_ndvi |-> interpolatedCol[k].ndvi]]
    IN  /\ pc = "smoothed"
        /\ P_05_NDVI' \in percentile(col, 5)
        /\ P_75_NDVI' \in percentile(col, 75)
        /\ P_95_NDVI' \in percentile(col, 95)
        /\ NotAbove(P_05_NDVI', P_75_NDVI')
        /\ NotAbove(P_75_NDVI', P_95_NDVI')
        /\ pc' = "percentiles"
        /\ UNCHANGED <<days, highPercentile, ndviCol, interpVars, smoothed,
                       ndviFilteredCollection, Allimages, speckleVars,
                       driverVars>>

\* var P_95_NDVI (P_75_NDVI in S1_SM.js) and var P_05_NDVI
ReducePercentiles ==
    /\ pc = "smoothed"
    /\ P_05_NDVI' \in percentile(smoothed, 5)
    /\ P_75_NDVI' \in percentile(smoothed, 75)
    /\ P_95_NDVI' \in percentile(smoothed, 95)
    /\ NotAbove(P_05_NDVI', P_75_NDVI')
    /\ NotAbove(P_75_NDVI', P_95_NDVI')
    /\ pc' = "percentiles"
    /\ UNCHANGED <<days, highPercentile, ndviCol, interpVars, smoothed,
                   ndviFilteredCollection, Allimages, speckleVars, driverVars>>

\* var ndviFilteredCollection = smoothed.map(filterPercentiles)
ClipPercentiles ==
    /\ pc = "percentiles"
    /\ ndviFilteredCollection' =
          [k \in 1 .. Len(smoothed) |-> filterPercentiles(smoothed[k])]
    /\ pc' = "ndviFilteredCollection"
    /\ UNCHANGED <<days, highPercentile, ndviCol, interpVars, smoothed,
                   P_05_NDVI, P_75_NDVI, P_95_NDVI, Allimages, speckleVars,
                   driverVars>>

\* var Allimages = ndviCol.merge(ndviFilteredCollection)
MergeAll ==
    /\ pc = "ndviFilteredCollection"
    /\ Allimages' = merge(ndviCol, ndviFilteredCollection)
    /\ pc' = "Allimages"
    /\ UNCHANGED <<days, highPercentile, ndviCol, interpVars, smoothed,
                   P_05_NDVI, P_75_NDVI, P_95_NDVI, ndviFilteredCollection,
                   speckleVars, driverVars>>

\* Steps 1 to 4 are the same in both copies of the script.
InitInterpolation ==
    /\ Init
    /\ highPercentile = 95

\* Steps 1 to 4: from the observed collection to the interpolated one.
Next ==
    \/ CreateInitCol
    \/ MergeCol
    \/ ApplyJoin1
    \/ ApplyJoin2
    \/ FilterInterpolated
    \/ Interpolate

Spec == InitInterpolation /\ [][Next]_vars

\* The whole script, smoothing and clipping included, on a collection of at
\* most one observation and the widest window.
InitPipeline ==
    /\ Init
    /\ Len(ndviCol) <= 1
    /\ days = MaxWindow

NextPipeline ==
    \/ Next
    \/ Smooth
    \/ ReducePercentiles
    \/ ClipPercentiles
    \/ MergeAll

SpecPipeline == InitPipeline /\ [][NextPipeline]_vars

\* The two clippers are compared on smoothed series of more levels, enough
\* for a sample between the 5th and the 75th percentile and another between
\* the 75th and the 95th: the script run on a period without observations,
\* the output of the Savitzky-Golay filter being any series of such values.
LevelPixels == {NoData} \cup {Px(v, 1) : v \in 0 .. MaxLevel}

SmoothLevels ==
    /\ pc = "interpolatedCol"
    /\ smoothed' \in
          { [k \in 1 .. Len(interpolatedCol) |->
                [time |-> interpolatedCol[k].time,
                 type |-> interpolatedCol[k].type,
                 smoothed_ndvi |-> f[k]]] :
            f \in [1 .. Len(interpolatedCol) -> LevelPixels] }
    /\ pc' = "smoothed"
    /\ UNCHANGED <<days, highPercentile, ndviCol, interpVars, P_05_NDVI,
                   P_75_NDVI, P_95_NDVI, ndviFilteredCollection, Allimages,
                   speckleVars, driverVars>>

InitClippers ==
    /\ Init
    /\ ndviCol = <<>>
    /\ days = MaxWindow

NextClippers ==
    \/ Next
    \/ SmoothLevels
    \/ ReducePercentiles
    \/ ClipPercentiles
    \/ MergeAll

SpecClippers == InitClippers /\ [][NextClippers]_vars


\* The multi-temporal filter mapped over a series: one frame after the
\* other is the target, and its neighbourhood is chosen.
InitSpeckle ==
    /\ pc = "s1_preproc"
    /\ days = MaxWindow
    /\ highPercentile = 95
    /\ ndviCol = <<>>
    /\ initCol = <<>>
    /\ mergedCol = <<>>
    /\ join1Result = <<>>
    /\ join2Result = <<>>
    /\ filtered = <<>>
    /\ interpolatedCol = <<>>
    /\ smoothed = <<>>
    /\ NotYetClipped
    /\ NoDriver
    /\ frames \in Series
    /\ nrOfImages \in 1 .. MaxNrOfImages
    /\ target = 0
    /\ neighbours = <<>>
    /\ kernelSize = MinKernelSize
    /\ framework = "MULTI"
    /\ error = "none"
    /\ filteredSeries = <<>>
    /\ NoRasters

SelectNeighbourhood ==
    /\ pc = "s1_preproc"
    /\ target < Len(frames)
    /\ target' = target + 1
    /\ neighbours' = selectNeighbours(frames, target', nrOfImages)
    /\ UNCHANGED <<pc, days, highPercentile, ndviCol, interpVars, clipVars,
                   frames, nrOfImages, kernelSize, framework, error,
                   filteredSeries, rasterVars, driverVars>>

NextSpeckle == SelectNeighbourhood

SpecSpeckle == InitSpeckle /\ [][NextSpeckle]_vars

\* filterSpeckle(series, config) for any configuration, valid or not.
InitFilterSpeckle ==
    /\ pc = "filterSpeckle"
    /\ days = MaxWindow
    /\ highPercentile = 95
    /\ ndviCol = <<>>
    /\ initCol = <<>>
    /\ mergedCol = <<>>
    /\ join1Result = <<>>
    /\ join2Result = <<>>
    /\ filtered = <<>>
    /\ interpolatedCol = <<>>
    /\ smoothed = <<>>
    /\ NotYetClipped
    /\ NoDriver
    /\ frames \in Series
    /\ nrOfImages \in 0 .. MaxNrOfImages
    /\ target = 0
    /\ neighbours = <<>>
    /\ kernelSize \in 0 .. MaxKernelSize
    /\ framework \in Frameworks
    /\ error = "none"
    /\ filteredSeries = <<>>
    /\ NoRasters

\* An invalid configuration is rejected before any frame is processed.
RejectConfig ==
    /\ pc = "filterSpeckle"
    /\ ~validConfig(kernelSize, framework, nrOfImages)
    /\ error' = "ConfigError"
    /\ pc' = "failed"
    /\ UNCHANGED <<days, highPercentile, ndviCol, interpVars, clipVars, frames,
                   nrOfImages, target, neighbours, kernelSize, framework,
                   filteredSeries, rasterVars, driverVars>>

AcceptConfig ==
    /\ pc = "filterSpeckle"
    /\ validConfig(kernelSize, framework, nrOfImages)
    /\ pc' = "filtering"
    /\ UNCHANGED <<days, highPercentile, ndviCol, interpVars, clipVars,
                   speckleVars, driverVars>>

\* MONO: the next frame is filtered on its own.
FilterFrameMono ==
    /\ pc = "filtering"
    /\ framework = "MONO"
    /\ target < Len(frames)
    /\ target' = target + 1
    /\ neighbours' = <<>>
    /\ filteredSeries' =
          Append(filteredSeries, filteredFrame(frames, target', neighbours'))
    /\ UNCHANGED <<pc, days, highPercentile, ndviCol, interpVars, clipVars,
                   frames, nrOfImages, kernelSize, framework, error,
                   rasterVars, driverVars>>

\* MULTI: the next frame is filtered with its temporal neighbourhood.
FilterFrameMulti ==
    /\ pc = "filtering"
    /\ framework = "MULTI"
    /\ target < Len(frames)
    /\ target' = target + 1
    /\ neighbours' = selectNeighbours(frames, target', nrOfImages)
    /\ filteredSeries' =
          Append(filteredSeries, filteredFrame(frames, target', neighbours'))
    /\ UNCHANGED <<pc, days, highPercentile, ndviCol, interpVars, clipVars,
                   frames, nrOfImages, kernelSize, framework, error,
                   rasterVars, driverVars>>

\* Every frame is filtered: the new series is returned.
ReturnFiltered ==
    /\ pc = "filtering"
    /\ target = Len(frames)
    /\ pc' = "filtered"
    /\ UNCHANGED <<days, highPercentile, ndviCol, interpVars, clipVars,
                   speckleVars, driverVars>>

NextFilterSpeckle ==
    \/ RejectConfig
    \/ AcceptConfig
    \/ FilterFrameMono
    \/ FilterFrameMulti
    \/ ReturnFiltered

SpecFilterSpeckle == InitFilterSpeckle /\ [][NextFilterSpeckle]_vars

\* The same pipeline seen at the pixels of one band, for a valid
\* configuration: a single frame under MONO, or two frames under MULTI with
\* N = 1, the second frame a copy of the first or the first seen from the
\* other side (rows and columns exchanged).
Transposed(r) == [p \in Pixels |-> r[<<p[2], p[1]>>]]

RasterSeries ==
    {<<r>> : r \in Rasters}
       \cup {<<r, Transposed(r)>> : r \in Rasters}
       \cup {<<r, r>> : r \in Rasters}

\* The weight of the MAP estimate matters to Gamma-MAP alone.
WeightsFor(kind) ==
    IF kind = "GAMMA MAP" THEN MapWeights ELSE {Px(0, 1)}

InitRaster ==
    /\ pc = "filtering"
    /\ days = MaxWindow
    /\ highPercentile = 95
    /\ ndviCol = <<>>
    /\ initCol = <<>>
    /\ mergedCol = <<>>
    /\ join1Result = <<>>
    /\ join2Result = <<>>
    /\ filtered = <<>>
    /\ interpolatedCol = <<>>
    /\ smoothed = <<>>
    /\ NotYetClipped
    /\ NoDriver
    /\ kernelSize = MinKernelSize
    /\ framework \in Frameworks
    /\ speckleFilter \in FilterKinds
    /\ rasters \in RasterSeries
    /\ Len(rasters) = (IF framework = "MONO" THEN 1 ELSE 2)
    /\ frames = [i \in 1 .. Len(rasters) |-> i]
    /\ nrOfImages = 1
    /\ target = 0
    /\ neighbours = <<>>
    /\ error = "none"
    /\ filteredSeries = <<>>
    /\ filteredRaster = <<>>

\* MONO: the chosen filter on the next frame alone.
FilterRasterMono ==
    /\ pc = "filtering"
    /\ framework = "MONO"
    /\ target < Len(frames)
    /\ target' = target + 1
    /\ neighbours' = <<>>
    /\ \E w \in WeightsFor(speckleFilter) :
          filteredRaster' =
             monoTemporalFilter(speckleFilter, rasters[target'], w)
    /\ filteredSeries' =
          Append(filteredSeries, filteredFrame(frames, target', neighbours'))
    /\ UNCHANGED <<pc, days, highPercentile, ndviCol, interpVars, clipVars,
                   frames, nrOfImages, kernelSize, framework, error,
                   speckleFilter, rasters, driverVars>>

\* MULTI: the next frame with the ratios of its temporal neighbourhood.
FilterRasterMulti ==
    /\ pc = "filtering"
    /\ framework = "MULTI"
    /\ target < Len(frames)
    /\ target' = target + 1
    /\ neighbours' = selectNeighbours(frames, target', nrOfImages)
    /\ \E w \in WeightsFor(speckleFilter) :
          filteredRaster' =
             multiTemporalFilter(speckleFilter, rasters, target',
                                 neighbours', w)
    /\ filteredSeries' =
          Append(filteredSeries, filteredFrame(frames, target', neighbours'))
    /\ UNCHANGED <<pc, days, highPercentile, ndviCol, interpVars, clipVars,
                   frames, nrOfImages, kernelSize, framework, error,
                   speckleFilter, rasters, driverVars>>

NextRaster ==
    \/ FilterRasterMono
    \/ FilterRasterMulti

SpecRaster == InitRaster /\ [][NextRaster]_vars



\* ================================================================ claims
\* What the claims speak of, stated on the observations alone (never on the
\* match lists): the observed samples at the pixel around a grid time.
Interpolated == pc = "interpolatedCol"

\* The unmasked observations at most `days` days before (after) time tg.
BeforeSamples(tg) ==
    {i \in 1 .. Len(ndviCol) :
        /\ ndviCol[i].ndvi.mask = 1
        /\ ndviCol[i].time <= tg
        /\ tg - ndviCol[i].time <= days}

AfterSamples(tg) ==
    {i \in 1 .. Len(ndviCol) :
        /\ ndviCol[i].ndvi.mask = 1
        /\ ndviCol[i].time >= tg
        /\ ndviCol[i].time - tg <= days}

NearestBefore(tg) ==
    ndviCol[CHOOSE i \in BeforeSamples(tg) :
                \A j \in BeforeSamples(tg) :
                    ndviCol[j].time <= ndviCol[i].time]

NearestAfter(tg) ==
    ndviCol[CHOOSE i \in AfterSamples(tg) :
                \A j \in AfterSamples(tg) : ndviCol[j].time >= ndviCol[i].time]

BothFound(tg) == BeforeSamples(tg) # {} /\ AfterSamples(tg) # {}

NoneFound(tg) == BeforeSamples(tg) = {} /\ AfterSamples(tg) = {}

OneFound(tg) == ~BothFound(tg) /\ ~NoneFound(tg)

\* pixel p holds exactly b.v + (a.v - b.v) * (tg - b.T) / (a.T - b.T)
IsLinearValue(p, b, a, tg) ==
    /\ p.mask = 1
    /\ p.num * b.ndvi.den * a.ndvi.den * (a.time - b.time)
         = p.den * ( b.ndvi.num * a.ndvi.den * (a.time - b.time)
                     + (a.ndvi.num * b.ndvi.den - b.ndvi.num * a.ndvi.den)
                       * (tg - b.time) )

\* C1: a grid point with a before and an after sample of different
\* timestamps inside the window is filled with the linear interpolation
\* before.value + (after.value - before.value) * (T_g - before.T) /
\* (after.T - before.T); values 0 at day 0 and 1 at day 10 give 1/2 at day 5.
C1_LinearInterpolation ==
    /\ Interpolated =>
         \A k \in 1 .. Len(interpolatedCol) :
            LET g == interpolatedCol[k] IN
            (BothFound(g.time)
               /\ NearestBefore(g.time).time # NearestAfter(g.time).time)
            => IsLinearValue(g.ndvi, NearestBefore(g.time),
                             NearestAfter(g.time), g.time)
    /\ interpolated(Px(0, 1), Px(1, 1),
                    timeRatio(Px(5, 1), Px(0, 1), Px(10, 1))) = Px(1, 2)

\* A grid point strictly between a sample of value 0 and a sample of value
\* 1, half way, is filled with 1/2.
C1_Witness ==
    /\ Interpolated
    /\ \E k \in 1 .. Len(interpolatedCol) :
          LET g == interpolatedCol[k] IN
          /\ BothFound(g.time)
          /\ NearestBefore(g.time).time < g.time
          /\ NearestAfter(g.time).time > g.time
          /\ NearestBefore(g.time).ndvi = Px(0, 1)
          /\ NearestAfter(g.time).ndvi = Px(1, 1)
          /\ g.ndvi = Px(1, 2)

\* The single sample of a grid point that has a sample on one side only.
OnlySample(tg) ==
    IF BeforeSamples(tg) # {} THEN NearestBefore(tg) ELSE NearestAfter(tg)

\* C2 as stated: a grid point with a sample within the window on exactly
\* one side takes that sample's value (nearest-neighbour fallback).
C2_FallbackToOneSide ==
    Interpolated =>
       \A k \in 1 .. Len(interpolatedCol) :
          LET g == interpolatedCol[k] IN
          OneFound(g.time) => g.ndvi = OnlySample(g.time).ndvi

\* C2 amended: a grid point with a sample within the window on exactly one
\* side stays unfilled (masked): there is no nearest-neighbour fallback.
C2_OneSideStaysMasked ==
    Interpolated =>
       \A k \in 1 .. Len(interpolatedCol) :
          LET g == interpolatedCol[k] IN
          OneFound(g.time) => g.ndvi.mask = 0

C2_Witness ==
    /\ Interpolated
    /\ \E k \in 1 .. Len(interpolatedCol) :
          LET g == interpolatedCol[k] IN
          /\ BeforeSamples(g.time) # {}
          /\ AfterSamples(g.time) = {}
          /\ NearestBefore(g.time).ndvi = Px(1, 1)
          /\ g.ndvi = NoData

\* C3: a grid point with no sample within the window on either side stays
\* masked, and the run still yields one image per grid point, with every
\* grid point that has samples on both sides filled.
C3_GapStaysMasked ==
    Interpolated =>
       /\ Len(interpolatedCol) = Len(initCol)
       /\ \A k \in 1 .. Len(interpolatedCol) :
             LET g == interpolatedCol[k] IN
             /\ g.time = initCol[k].time
             /\ NoneFound(g.time) => g.ndvi.mask = 0
             /\ BothFound(g.time) => g.ndvi.mask = 1

C3_Witness ==
    /\ Interpolated
    /\ \E k, m \in 1 .. Len(interpolatedCol) :
          /\ NoneFound(interpolatedCol[k].time)
          /\ interpolatedCol[k].ndvi = NoData
          /\ BothFound(interpolatedCol[m].time)
          /\ interpolatedCol[m].ndvi.mask = 1

Joined == pc \in {"filtered", "interpolatedCol"}

\* C4: the 'before' list holds no image later than T_g and the 'after'
\* list none earlier, and the sample used as before (after) is the sample
\* of the window with the greatest timestamp <= T_g (least timestamp >= T_g).
C4_BracketingSamples ==
    Joined =>
       \A k \in 1 .. Len(filtered) :
          LET g == filtered[k] IN
          /\ \A i \in 1 .. Len(g.before) :
                join1Result[g.before[i]].time <= g.time
          /\ \A i \in 1 .. Len(g.after) :
                mergedCol[g.after[i]].time >= g.time
          /\ BeforeSamples(g.time) # {} =>
                /\ beforeMosaic(g).timestamp
                     = Px(NearestBefore(g.time).time, 1)
                /\ beforeMosaic(g).ndvi = NearestBefore(g.time).ndvi
          /\ AfterSamples(g.time) # {} =>
                /\ afterMosaic(g).timestamp = Px(NearestAfter(g.time).time, 1)
                /\ afterMosaic(g).ndvi = NearestAfter(g.time).ndvi

\* Two candidate samples on each side of one grid point.
C4_Witness ==
    /\ Joined
    /\ \E k \in 1 .. Len(filtered) :
          LET g == filtered[k] IN
          /\ Cardinality(BeforeSamples(g.time)) >= 2
          /\ Cardinality(AfterSamples(g.time)) >= 1
          /\ beforeMosaic(g).timestamp = Px(NearestBefore(g.time).time, 1)
          /\ afterMosaic(g).timestamp = Px(NearestAfter(g.time).time, 1)

\* C5: no image further than `days` days from T_g is in a match list of the
\* grid point, the timestamps t1 and t2 used lie within the window, and a
\* filled grid point lies between t1 and t2 (no extrapolation).
C5_WindowBound ==
    Joined =>
       \A k \in 1 .. Len(filtered) :
          LET g == filtered[k]
              t1 == beforeMosaic(g).timestamp
              t2 == afterMosaic(g).timestamp
          IN
          /\ \A i \in 1 .. Len(g.before) :
                Abs(join1Result[g.before[i]].time - g.time) <= days
          /\ \A i \in 1 .. Len(g.after) :
                Abs(mergedCol[g.after[i]].time - g.time) <= days
          /\ t1.mask = 1 =>
                t1.den = 1 /\ t1.num <= g.time /\ g.time - t1.num <= days
          /\ t2.mask = 1 =>
                t2.den = 1 /\ t2.num >= g.time /\ t2.num - g.time <= days
          /\ (Interpolated /\ interpolatedCol[k].ndvi.mask = 1) =>
                t1.mask = 1 /\ t2.mask = 1

\* A grid point whose only samples lie outside the window, left unfilled.
C5_Witness ==
    /\ Interpolated
    /\ \E k \in 1 .. Len(interpolatedCol) :
          LET g == interpolatedCol[k] IN
          /\ \E i, j \in 1 .. Len(ndviCol) :
                /\ ndviCol[i].ndvi.mask = 1 /\ ndviCol[j].ndvi.mask = 1
                /\ ndviCol[i].time < g.time - days
                /\ ndviCol[j].time > g.time + days
          /\ NoneFound(g.time)
          /\ g.ndvi = NoData
Clipped == pc \in {"ndviFilteredCollection", "Allimages"}

\* low <= v <= high, for unmasked pixels.
InClosedBand(v, low, high) == ~Less(v, low) /\ ~Less(high, v)

\* low < v < high, for unmasked pixels.
InOpenBand(v, low, high) == Less(low, v) /\ Less(v, high)

\* C6 as stated: every sample within the closed band [low_pctile,
\* high_pctile], the two percentile values included, is kept unchanged and
\* every sample outside the band is masked.
C6_ClosedBandKept ==
    Clipped =>
       \A k \in 1 .. Len(smoothed) :
          LET v == smoothed[k].smoothed_ndvi
              out == ndviFilteredCollection[k].smoothed_ndvi
          IN  v.mask = 1 =>
                 IF InClosedBand(v, P_05_NDVI, P_high_NDVI)
                 THEN out = v ELSE out = NoData

\* C6 amended: every sample strictly inside the band (low_pctile < v <
\* high_pctile) is kept unchanged; every other sample, a sample equal to
\* either percentile value included, is masked.
C6_OpenBandKept ==
    Clipped =>
       /\ Len(ndviFilteredCollection) = Len(smoothed)
       /\ \A k \in 1 .. Len(smoothed) :
             LET v == smoothed[k].smoothed_ndvi
                 out == ndviFilteredCollection[k].smoothed_ndvi
             IN  v.mask = 1 =>
                    /\ P_05_NDVI.mask = 1 /\ P_high_NDVI.mask = 1
                    /\ IF InOpenBand(v, P_05_NDVI, P_high_NDVI)
                       THEN out = v ELSE out = NoData

\* One sample equal to the low percentile and one equal to the high one are
\* masked, a sample between them is kept.
C6_Witness ==
    /\ Clipped
    /\ \E i, j, k \in 1 .. Len(smoothed) :
          /\ smoothed[i].smoothed_ndvi = P_05_NDVI
          /\ smoothed[j].smoothed_ndvi = P_high_NDVI
          /\ smoothed[k].smoothed_ndvi.mask = 1
          /\ P_05_NDVI.mask = 1
          /\ ndviFilteredCollection[i].smoothed_ndvi = NoData
          /\ ndviFilteredCollection[j].smoothed_ndvi = NoData
          /\ ndviFilteredCollection[k].smoothed_ndvi
               = smoothed[k].smoothed_ndvi

MaskedCount(col) == Cardinality({k \in 1 .. Len(col) :
                                    col[k].smoothed_ndvi.mask = 0})

\* C7: after clipping no unmasked sample lies outside the percentile range,
\* every sample masked before is still masked, and the number of masked
\* samples has not decreased.
C7_ClipPostCondition ==
    Clipped =>
       /\ \A k \in 1 .. Len(ndviFilteredCollection) :
             LET out == ndviFilteredCollection[k].smoothed_ndvi IN
             /\ out.mask = 1 => InClosedBand(out, P_05_NDVI, P_high_NDVI)
             /\ smoothed[k].smoothed_ndvi.mask = 0 => out.mask = 0
       /\ MaskedCount(ndviFilteredCollection) >= MaskedCount(smoothed)

\* A series with a masked sample, a clipped sample and a kept sample.
C7_Witness ==
    /\ Clipped
    /\ MaskedCount(smoothed) >= 1
    /\ MaskedCount(ndviFilteredCollection) > MaskedCount(smoothed)
    /\ MaskedCount(ndviFilteredCollection) < Len(smoothed)

IsTimeOrdered(col) ==
    \A i, j \in 1 .. Len(col) : i < j => col[i].time <= col[j].time

Times(col) == [k \in 1 .. Len(col) |-> col[k].time]

Merged == pc \notin {"ndviCol", "initCol"}

TargetIndex == target - 1

SeriesLength == Len(frames)

Chosen == {neighbours[k] - 1 : k \in 1 .. Len(neighbours)}

\* C9: for a target of index i with N <= i, the neighbourhood is exactly
\* the frames of indices i-N .. i-1: all before the target, none after.
C9_EnoughPredecessors ==
    (target >= 1 /\ nrOfImages <= TargetIndex) =>
       /\ Chosen = (TargetIndex - nrOfImages) .. (TargetIndex - 1)
       /\ Len(neighbours) = nrOfImages

\* A target with more than N frames before it and a frame after it.
C9_Witness ==
    /\ target >= 1
    /\ nrOfImages >= 2
    /\ nrOfImages < TargetIndex
    /\ TargetIndex < SeriesLength - 1
    /\ Chosen = (TargetIndex - nrOfImages) .. (TargetIndex - 1)

\* How many frames after the target are taken when i < N frames precede it.
TakenAfter ==
    IF nrOfImages - TargetIndex < SeriesLength - 1 - TargetIndex
    THEN nrOfImages - TargetIndex
    ELSE SeriesLength - 1 - TargetIndex

\* C10: when fewer than N frames precede the target, all of them are
\* chosen and the remainder is the frames that follow it, the nearest in
\* time first; every chosen index is inside the series, none is the
\* target, and no frame is chosen twice.
C10_TooFewPredecessors ==
    (target >= 1 /\ TargetIndex < nrOfImages) =>
       /\ \A j \in 0 .. TargetIndex - 1 : j \in Chosen
       /\ {j \in Chosen : j > TargetIndex}
            = (TargetIndex + 1) .. (TargetIndex + TakenAfter)
       /\ \A a, b \in 1 .. Len(neighbours) :
             (a < b /\ neighbours[a] > target /\ neighbours[b] > target)
                => frames[neighbours[a]] < frames[neighbours[b]]
       /\ Chosen \subseteq (0 .. SeriesLength - 1) \ {TargetIndex}
       /\ Cardinality(Chosen) = Len(neighbours)

\* One frame before the target, two chosen after it, one more left over.
C10_Witness ==
    /\ target >= 1
    /\ TargetIndex = 1
    /\ nrOfImages = 3
    /\ SeriesLength - 1 - TargetIndex > 2
    /\ Chosen = {0, 2, 3}
\* -------------------------------------------------- C11 .. C13 (pipeline)
\* C11: a series with fewer than N + 1 frames is filtered all the same:
\* under MULTI the neighbourhood of every frame is all the other frames of
\* the series, no error is raised, and the returned series has a frame for
\* every frame of the input.
C11_ShortSeriesUsesAllFrames ==
    (framework = "MULTI" /\ SeriesLength < nrOfImages + 1
       /\ pc \in {"filtering", "filtered"}) =>
       /\ error = "none"
       /\ target >= 1 =>
             /\ Chosen = (0 .. SeriesLength - 1) \ {TargetIndex}
             /\ Len(neighbours) = SeriesLength - 1
       /\ Len(filteredSeries) = target
       /\ pc = "filtered" => Len(filteredSeries) = SeriesLength

\* A series of 3 frames filtered to the end with N = 3: the last frame took
\* the two others.
C11_Witness ==
    /\ framework = "MULTI"
    /\ pc = "filtered"
    /\ SeriesLength = 3
    /\ nrOfImages = 3
    /\ Chosen = {0, 1}
    /\ Len(filteredSeries) = 3

C13_SameTimestamps ==
    /\ pc \in {"filtering", "filtered"} =>
          filteredSeries = SubSeq(frames, 1, target)
    /\ pc = "filtered" => filteredSeries = frames

\* A series of 3 frames returned under MULTI, the last frame filtered with
\* older neighbours.
C13_Witness ==
    /\ pc = "filtered"
    /\ framework = "MULTI"
    /\ Len(frames) = 3
    /\ Len(neighbours) >= 1
    /\ filteredSeries = frames

\* ------------------------------------------------- C14 .. C16 (the filters)
\* The raster of the frame that was just filtered.
TargetRaster == rasters[target]

IsConstant(r) == \A p, q \in Pixels : r[p] = r[q]

Centre == <<(RasterSide + 1) \div 2, (RasterSide + 1) \div 2>>

\* C14: on a raster whose pixels all hold the same value, each of the five
\* mono-temporal filters returns the input values unchanged, at every pixel
\* (in the middle of the raster and at its edges).
C14_HomogeneousUnchanged ==
    (framework = "MONO" /\ target >= 1 /\ IsConstant(TargetRaster)) =>
       filteredRaster = TargetRaster

\* Refined Lee applied to a homogeneous raster of amplitude 2.
C14_Witness ==
    /\ framework = "MONO"
    /\ target >= 1
    /\ speckleFilter = "REFINED LEE"
    /\ IsConstant(TargetRaster)
    /\ TargetRaster[Centre] = Px(2, 1)
    /\ filteredRaster = TargetRaster

\* Two identical frames filtered under MULTI with N = 1.
TwoIdenticalFrames ==
    /\ framework = "MULTI"
    /\ nrOfImages = 1
    /\ Len(rasters) = 2
    /\ rasters[1] = rasters[2]
    /\ target >= 1

LeeFiltered ==
    framework = "MONO" /\ target >= 1 /\ speckleFilter = "LEE"

\* C16: at every pixel the factor k of the Lee filter is within [0, 1], the
\* output is mu + k (I - mu), and where CV <= Cu (the unclamped factor would
\* be negative or undefined) the output is the plain local mean.
C16_LeeFactorClamped ==
    LeeFiltered =>
       \A p \in Pixels :
          LET st == statistics(TargetRaster, Window(p))
              k == leeFactor(st.cv2)
          IN  /\ ~Less(k, Px(0, 1))
              /\ ~Less(Px(1, 1), k)
              /\ filteredRaster[p] =
                    add(st.mean, multiply(k, subtract(TargetRaster[p],
                                                      st.mean)))
              /\ ~Less(squaredCu, st.cv2) => filteredRaster[p] = st.mean

\* A raster with a patch of small but non-zero variation (0 < CV < Cu) whose
\* pixel becomes the local mean, and a patch with CV > Cu whose factor is
\* strictly between 0 and 1.
C16_Witness ==
    /\ LeeFiltered
    /\ \E p \in Pixels :
          LET st == statistics(TargetRaster, Window(p))
          IN  /\ st.cv2.num > 0
              /\ Less(st.cv2, squaredCu)
              /\ TargetRaster[p] # st.mean
              /\ filteredRaster[p] = st.mean
    /\ \E p \in Pixels :
          LET k == leeFactor(statistics(TargetRaster, Window(p)).cv2)
          IN  Less(Px(0, 1), k) /\ Less(k, Px(1, 1))

\* ------------------------------------------------------------ C18 .. C20
\* C18: the grid has consecutive timestamps exactly n days apart, every
\* grid timestamp lies within [start, end] (days 0 .. TotalDays), and every
\* grid point is created fully masked and tagged 'interpolated'.
C18_TimeGridRegular ==
    pc # "ndviCol" =>
       /\ Len(initCol) >= 1
       /\ \A k \in 1 .. Len(initCol) :
             /\ initCol[k].time >= 0
             /\ initCol[k].time <= TotalDays
             /\ initCol[k].ndvi.mask = 0
             /\ initCol[k].type = "interpolated"
       /\ \A k \in 1 .. Len(initCol) - 1 :
             initCol[k + 1].time - initCol[k].time = n

\* The grid is built: several points, the last one within the period.
C18_Witness ==
    /\ pc = "initCol"
    /\ Len(initCol) >= 3
    /\ initCol[2].time - initCol[1].time = n
    /\ initCol[Len(initCol)].time > TotalDays - n
    /\ initCol[Len(initCol)].time <= TotalDays

\* C19: no statement of the script changes the observed series ndviCol,
\* and the final merge starts with exactly these observations.
C19_InputsNotMutated ==
    /\ [][ndviCol' = ndviCol]_vars
    /\ [](pc = "Allimages" =>
             SubSeq(Allimages, 1, Len(ndviCol)) = ndviCol)

\* The whole script has run on an observation, which comes first in the
\* final series, before the clipped smoothed samples.
C19_Witness ==
    /\ pc = "Allimages"
    /\ Len(ndviCol) = 1
    /\ ndviCol[1].ndvi.mask = 1
    /\ Allimages[1] = ndviCol[1]
    /\ Len(Allimages) = 1 + Len(initCol)

RECURSIVE ObservedOnly(_, _)
\* The match list without the blank grid images.
ObservedOnly(col, list) ==
    IF list = <<>> THEN <<>>
    ELSE IF col[list[1]].type = "observed"
         THEN <<list[1]>> \o ObservedOnly(col, Tail(list))
         ELSE ObservedOnly(col, Tail(list))

\* The value at grid time tg as the observations alone determine it.
ValueFromSamples(tg) ==
    IF ~BothFound(tg) THEN NoData
    ELSE LET b == NearestBefore(tg)
             a == NearestAfter(tg)
         IN  IF a.time = b.time THEN b.ndvi
             ELSE add(b.ndvi,
                      multiply(subtract(a.ndvi, b.ndvi),
                               Px(tg - b.time, a.time - b.time)))

\* C20: the value filled at a grid point is determined by the observed
\* samples and the grid point's timestamp alone.  The blank grid images in
\* its before/after lists contribute neither a value nor a timestamp: the
\* mosaics are those of the observed images of the lists.
C20_GridPointIndependence ==
    Interpolated =>
       \A k \in 1 .. Len(filtered) :
          LET image == filtered[k] IN
          /\ beforeMosaic(image) =
                mosaic(join1Result, ObservedOnly(join1Result, image.before))
          /\ afterMosaic(image) =
                mosaic(mergedCol, ObservedOnly(mergedCol, image.after))
          /\ interpolatedCol[k].time = image.time
          /\ interpolatedCol[k].ndvi = ValueFromSamples(image.time)

\* A filled grid point whose before and after lists hold other grid images
\* besides itself, nearer in time than the samples used.
C20_Witness ==
    /\ Interpolated
    /\ \E k \in 1 .. Len(filtered) :
          LET image == filtered[k] IN
          /\ Len(image.before)
                - Len(ObservedOnly(join1Result, image.before)) >= 2
          /\ Len(image.after)
                - Len(ObservedOnly(mergedCol, image.after)) >= 2
          /\ interpolatedCol[k].ndvi.mask = 1
          /\ NearestBefore(image.time).ndvi # NearestAfter(image.time).ndvi

\* The unmasked observations taken at exactly time tg.
SamplesAt(tg) ==
    {i \in 1 .. Len(ndviCol) :
        ndviCol[i].ndvi.mask = 1 /\ ndviCol[i].time = tg}

\* The time ratio of a grid image, as interpolateImages computes it.
RatioOf(image) ==
    timeRatio(Px(image.time, 1), beforeMosaic(image).timestamp,
              afterMosaic(image).timestamp)

\* a <= p <= b or b <= p <= a, for unmasked pixels.
Between(p, a, b) ==
    \/ ~Less(p, a) /\ ~Less(b, p)
    \/ ~Less(p, b) /\ ~Less(a, p)

\* ------------------------------------------------------------ C21 .. C28
\* C21: the interpolated collection has exactly one frame per grid point,
\* in grid order and with the grid point's timestamp, and none of the
\* observed frames: every frame is tagged 'interpolated'.
C21_OneFramePerGridPoint ==
    Interpolated =>
       /\ Len(interpolatedCol) = Len(daysToInterpolate)
       /\ \A k \in 1 .. Len(interpolatedCol) :
             /\ interpolatedCol[k].time = daysToInterpolate[k]
             /\ interpolatedCol[k].type = "interpolated"
       /\ \A k \in 1 .. Len(filtered) : filtered[k].type = "interpolated"

\* Observations went through the joins, one of them at the very time of a
\* grid point, and none of them is in the interpolated collection.
C21_Witness ==
    /\ Interpolated
    /\ Len(ndviCol) >= 2
    /\ Len(join2Result) = Len(ndviCol) + Len(initCol)
    /\ \E i \in 1 .. Len(ndviCol) : \E k \in 1 .. Len(initCol) :
          ndviCol[i].time = initCol[k].time /\ ndviCol[i].ndvi.mask = 1
    /\ Len(interpolatedCol) = Len(initCol)

\* The stages of the script that have run.
SmoothingDone ==
    pc \in {"smoothed", "percentiles", "ndviFilteredCollection", "Allimages"}

PercentilesDone ==
    pc \in {"percentiles", "ndviFilteredCollection", "Allimages"}

\* C22: the smoothed series exists only once the interpolated one does and
\* is made from it (one sample per interpolated frame); the percentiles
\* exist only once the smoothed series does and are percentiles of the
\* smoothed series; the clipped series exists only once the percentiles do
\* and is the smoothed series with each sample clipped by them.
C22_StageOrder ==
    /\ ~SmoothingDone => smoothed = <<>>
    /\ SmoothingDone =>
          /\ interpolatedCol # <<>>
          /\ Len(smoothed) = Len(interpolatedCol)
          /\ \A k \in 1 .. Len(smoothed) :
                smoothed[k].time = interpolatedCol[k].time
    /\ ~PercentilesDone => NotYetClipped
    /\ PercentilesDone =>
          /\ P_05_NDVI \in percentile(smoothed, 5)
          /\ P_high_NDVI \in percentile(smoothed, highPercentile)
    /\ pc = "percentiles" => ndviFilteredCollection = <<>>
    /\ pc \in {"ndviFilteredCollection", "Allimages"} =>
          /\ Len(ndviFilteredCollection) = Len(smoothed)
          /\ \A k \in 1 .. Len(smoothed) :
                /\ ndviFilteredCollection[k].time = smoothed[k].time
                /\ ndviFilteredCollection[k].smoothed_ndvi =
                      clip(smoothed[k].smoothed_ndvi, P_05_NDVI, P_high_NDVI)

\* All stages have run: nothing was interpolated, the smoother produced
\* values, and the clipper kept one of them and masked another.
C22_Witness ==
    /\ pc = "Allimages"
    /\ \A k \in 1 .. Len(interpolatedCol) : interpolatedCol[k].ndvi.mask = 0
    /\ P_05_NDVI.mask = 1
    /\ \E k, m \in 1 .. Len(smoothed) :
          /\ ndviFilteredCollection[k].smoothed_ndvi.mask = 1
          /\ smoothed[m].smoothed_ndvi.mask = 1
          /\ ndviFilteredCollection[m].smoothed_ndvi.mask = 0

\* ---------------------------------------------- the driver of the S1 chain
\* POLARIZATION: 'VV', 'VH' or 'VVVH', as the header of the driver documents.
Polarizations == {"VV", "VH", "VVVH"}

\* FORMAT: 'LINEAR' or 'DB' are documented; "db" is any other string.
Formats == {"DB", "LINEAR", "db"}

Parameters ==
    [POLARIZATION : Polarizations, FORMAT : Formats, SAVE_ASSETS : BOOLEAN]

\* The bands s1_preproc returns: "the specified polarization images and
\* angle band".
polarizationBands(polarization) ==
    CASE polarization = "VV" -> {"VV", "angle"}
      [] polarization = "VH" -> {"VH", "angle"}
      [] OTHER -> {"VV", "VH", "angle"}

\* A collection is the set of its images' bands and the number of times its
\* backscatter has been converted from linear to dB (s1_preproc returns
\* linear backscatter: the driver itself converts what it shows or exports).
s1_preproc(params) ==
    [bands |-> polarizationBands(params.POLARIZATION), dB |-> 0]

\* collection.map(helper.add_ratio_lin): one more band, the VV/VH ratio.
add_ratio_lin(collection) ==
    [collection EXCEPT !.bands = @ \cup {"VVVH_ratio"}]

\* collection.map(helper.lin_to_db): the same bands, in dB.
lin_to_db(collection) ==
    [collection EXCEPT !.dB = @ + 1]

\* collection.map(helper.lin_to_db2): the same for the three-band image.
lin_to_db2(collection) ==
    [collection EXCEPT !.dB = @ + 1]

\* collection.select(selectors): the bands found, and those that are not
\* bands of the collection's images.
select(collection, selectors) ==
    [found |-> selectors \cap collection.bands,
     missing |-> selectors \ collection.bands]

\* Mutant of convertForExport: the conversion not guarded by FORMAT.
convertForExportAlways(collection, format) ==
    [collection EXCEPT !.dB = @ + 1]

\* if (parameter.FORMAT=='DB') s1_preprocces = s1_preprocces.map(lin_to_db)
convertForExport(collection, format) ==
    IF format = "DB" THEN lin_to_db(collection) ELSE collection

InitDriver ==
    /\ pc = "parameter"
    /\ days = MaxWindow
    /\ highPercentile = 95
    /\ ndviCol = <<>>
    /\ initCol = <<>>
    /\ mergedCol = <<>>
    /\ join1Result = <<>>
    /\ join2Result = <<>>
    /\ filtered = <<>>
    /\ interpolatedCol = <<>>
    /\ smoothed = <<>>
    /\ NotYetClipped
    /\ NoSpeckleFilter
    /\ parameter \in Parameters
    /\ s1 = NoCollection
    /\ s1_preprocces = NoCollection
    /\ s1_view = NoCollection
    /\ s1_preprocces_view = NoCollection
    /\ visparam = {}
    /\ comb = {}
    /\ missingBands = {}
    /\ asset = NoAsset

notDriver == <<days, highPercentile, ndviCol, interpVars, clipVars,
               speckleVars>>

\* var s1_preprocces = speckle.s1_preproc(parameter);
\* var s1 = s1_preprocces[0]; s1_preprocces = s1_preprocces[1]
Preprocess ==
    /\ pc = "parameter"
    /\ s1' = s1_preproc(parameter)
    /\ s1_preprocces' = s1_preproc(parameter)
    /\ pc' = "s1_preprocces"
    /\ UNCHANGED <<notDriver, parameter, s1_view, s1_preprocces_view,
                   visparam, comb, missingBands, asset>>

\* The VISUALIZE block: the collections to display are new collections, and
\* the names s1 and s1_preprocces keep the collections they had.
Visualize ==
    /\ pc = "s1_preprocces"
    /\ IF parameter.POLARIZATION = "VVVH"
       THEN /\ IF parameter.FORMAT = "DB"
               THEN /\ s1_preprocces_view' =
                           lin_to_db2(add_ratio_lin(s1_preprocces))
                    /\ s1_view' = lin_to_db2(add_ratio_lin(s1))
               ELSE /\ s1_preprocces_view' = add_ratio_lin(s1_preprocces)
                    /\ s1_view' = add_ratio_lin(s1)
            /\ visparam' = {"VV", "VH", "VVVH_ratio"}
       ELSE /\ IF parameter.FORMAT = "DB"
               THEN /\ s1_preprocces_view' = lin_to_db(s1_preprocces)
                    /\ s1_view' = lin_to_db(s1)
               ELSE /\ s1_preprocces_view' = s1_preprocces
                    /\ s1_view' = s1
            /\ visparam' = {parameter.POLARIZATION}
    /\ pc' = "visparam"
    /\ UNCHANGED <<notDriver, parameter, s1, s1_preprocces, comb,
                   missingBands, asset>>

\* Map.addLayer(unfiltered.median(), visparam, ...) and the same for
\* filtered: the layers display the bands of visparam.
AddLayers ==
    /\ pc = "visparam"
    /\ missingBands' = missingBands
                         \cup select(s1_view, visparam).missing
                         \cup select(s1_preprocces_view, visparam).missing
    /\ pc' = "Map"
    /\ UNCHANGED <<notDriver, parameter, s1, s1_preprocces, s1_view,
                   s1_preprocces_view, visparam, comb, asset>>

\* The chart: band 'VV' of both collections, renamed, and band 'angle' of
\* the processed one, combined into comb.
Chart ==
    /\ pc = "Map"
    /\ LET unfiltered == select(s1_view, {"VV"})
           filtered_VV == select(s1_preprocces_view, {"VV"})
           angle == select(s1_preprocces_view, {"angle"})
       IN  /\ comb' = (IF unfiltered.found = {} THEN {}
                                                ELSE {"VV unfiltered"})
                        \cup (IF filtered_VV.found = {} THEN {}
                                                        ELSE {"VV filtered"})
                        \cup angle.found
           /\ missingBands' = missingBands \cup unfiltered.missing
                                \cup filtered_VV.missing \cup angle.missing
    /\ pc' = "sigma_chart"
    /\ UNCHANGED <<notDriver, parameter, s1, s1_preprocces, s1_view,
                   s1_preprocces_view, visparam, asset>>

\* //Convert format for export
FormatForExport ==
    /\ pc = "sigma_chart"
    /\ s1_preprocces' = convertForExport(s1_preprocces, parameter.FORMAT)
    /\ pc' = "export"
    /\ UNCHANGED <<notDriver, parameter, s1, s1_view, s1_preprocces_view,
                   visparam, comb, missingBands, asset>>

\* if(parameter.SAVE_ASSETS) helper.Download.ImageCollection.toAsset(...)
SaveAssets ==
    /\ pc = "export"
    /\ asset' = IF parameter.SAVE_ASSETS
                THEN [bands |-> s1_preprocces.bands,
                      dB |-> s1_preprocces.dB, exported |-> TRUE]
                ELSE asset
    /\ pc' = "done"
    /\ UNCHANGED <<notDriver, parameter, s1, s1_preprocces, s1_view,
                   s1_preprocces_view, visparam, comb, missingBands>>

NextDriver ==
    \/ Preprocess
    \/ Visualize
    \/ AddLayers
    \/ Chart
    \/ FormatForExport
    \/ SaveAssets

SpecDriver == InitDriver /\ [][NextDriver]_vars

\* C23: the collection handed to the export is in dB, converted once, when
\* FORMAT is 'DB', and linear for any other FORMAT, whatever was converted
\* for the display; toAsset is called, on that collection, exactly when
\* SAVE_ASSETS is true.
C23_ExportFormatAndGating ==
    /\ pc \in {"s1_preprocces", "visparam", "Map", "sigma_chart"}
          => s1_preprocces.dB = 0
    /\ pc \in {"export", "done"}
          => s1_preprocces.dB = (IF parameter.FORMAT = "DB" THEN 1 ELSE 0)
    /\ pc # "done" => asset = NoAsset
    /\ pc = "done" =>
          /\ asset.exported = parameter.SAVE_ASSETS
          /\ asset.exported =>
                /\ asset.dB = (IF parameter.FORMAT = "DB" THEN 1 ELSE 0)
                /\ asset.bands = s1_preprocces.bands

\* C23: a 'DB' run has converted the display and exported the collection.
C23_Witness ==
    /\ pc = "done"
    /\ parameter.FORMAT = "DB"
    /\ parameter.SAVE_ASSETS
    /\ s1_preprocces_view.dB = 1
    /\ asset.exported
    /\ asset.dB = 1

\* C24: no band selected for the map or for the chart is missing from the
\* collection it is selected from, whatever the documented POLARIZATION.
C24_SelectedBandsExist ==
    missingBands = {}

\* C25: when an unmasked observation has the timestamp of a grid point, it
\* is both the before and the after sample (t2 - t1 = 0), and the grid point
\* is filled with exactly its value: the division by zero of the time ratio
\* neither masks nor changes the result.
C25_ExactTimestampHit ==
    Interpolated =>
       \A k \in 1 .. Len(filtered) :
          \A i \in SamplesAt(filtered[k].time) :
             LET image == filtered[k]
                 sample == ndviCol[i]
             IN  /\ beforeMosaic(image).ndvi = sample.ndvi
                 /\ afterMosaic(image).ndvi = sample.ndvi
                 /\ beforeMosaic(image).timestamp = Px(sample.time, 1)
                 /\ afterMosaic(image).timestamp = Px(sample.time, 1)
                 /\ subtract(afterMosaic(image).timestamp,
                             beforeMosaic(image).timestamp) = Px(0, 1)
                 /\ interpolatedCol[k].ndvi.mask = 1
                 /\ interpolatedCol[k].ndvi = sample.ndvi

\* A grid point with an observation of a value other than 0 at its own
\* timestamp, and other observations before and after it.
C25_Witness ==
    /\ Interpolated
    /\ \E k \in 1 .. Len(filtered) :
          \E i \in SamplesAt(filtered[k].time) :
             /\ ndviCol[i].ndvi.num > 0
             /\ interpolatedCol[k].ndvi = ndviCol[i].ndvi
             /\ \E j \in BeforeSamples(filtered[k].time) : j # i
             /\ \E j \in AfterSamples(filtered[k].time) : j # i

\* C26: at the pixel, the before (after) mosaic of a grid point holds the
\* value and the timestamp of one and the same observation, the nearest
\* unmasked one on that side inside the window; a cloud-masked observation
\* gives neither the value nor t1 (t2), and with no unmasked observation on
\* a side both bands of the mosaic are masked.
C26_MaskedObservationsSkipped ==
    Interpolated =>
       \A k \in 1 .. Len(filtered) :
          LET image == filtered[k]
              tg == image.time
          IN  /\ IF BeforeSamples(tg) = {}
                 THEN beforeMosaic(image) =
                         [ndvi |-> NoData, timestamp |-> NoData]
                 ELSE beforeMosaic(image) =
                         [ndvi |-> NearestBefore(tg).ndvi,
                          timestamp |-> Px(NearestBefore(tg).time, 1)]
              /\ IF AfterSamples(tg) = {}
                 THEN afterMosaic(image) =
                         [ndvi |-> NoData, timestamp |-> NoData]
                 ELSE afterMosaic(image) =
                         [ndvi |-> NearestAfter(tg).ndvi,
                          timestamp |-> Px(NearestAfter(tg).time, 1)]

\* A filled grid point with a cloud-masked observation inside the window
\* that is nearer to it than the before sample used.
C26_Witness ==
    /\ Interpolated
    /\ \E k \in 1 .. Len(filtered) :
          LET tg == filtered[k].time IN
          /\ BothFound(tg)
          /\ interpolatedCol[k].ndvi.mask = 1
          /\ NearestBefore(tg).ndvi # NearestAfter(tg).ndvi
          /\ \E i \in 1 .. Len(ndviCol) :
                /\ ndviCol[i].ndvi.mask = 0
                /\ ndviCol[i].time <= tg
                /\ ndviCol[i].time > NearestBefore(tg).time

\* C27: whenever a grid point has a before and an after sample, its time
\* ratio lies in [0, 1] and its filled value lies between the smaller and
\* the larger of the two samples' values, bounds included.
C27_WithinBracket ==
    Interpolated =>
       \A k \in 1 .. Len(filtered) :
          LET image == filtered[k]
              tg == image.time
          IN  BothFound(tg) =>
                 /\ RatioOf(image).mask = 1
                 /\ ~Less(RatioOf(image), Px(0, 1))
                 /\ ~Less(Px(1, 1), RatioOf(image))
                 /\ interpolatedCol[k].ndvi.mask = 1
                 /\ Between(interpolatedCol[k].ndvi, NearestBefore(tg).ndvi,
                            NearestAfter(tg).ndvi)

\* A grid point strictly inside its bracket in time, between two samples of
\* different values, filled with a value strictly between them.
C27_Witness ==
    /\ Interpolated
    /\ \E k \in 1 .. Len(filtered) :
          LET image == filtered[k]
              tg == image.time
          IN  /\ BothFound(tg)
              /\ Less(Px(0, 1), RatioOf(image))
              /\ Less(RatioOf(image), Px(1, 1))
              /\ Less(NearestAfter(tg).ndvi, NearestBefore(tg).ndvi)
              /\ Less(NearestAfter(tg).ndvi, interpolatedCol[k].ndvi)
              /\ Less(interpolatedCol[k].ndvi, NearestBefore(tg).ndvi)

\* The sample of smoothed at position k as the S1_SM.js copy of the script
\* clips it (5th and 75th percentiles) and as NDVI_Interpolation.js does
\* (5th and 95th), on the one smoothed series of the run.
Clipped75(k) == clip(smoothed[k].smoothed_ndvi, P_05_NDVI, P_75_NDVI)

Clipped95(k) == clip(smoothed[k].smoothed_ndvi, P_05_NDVI, P_95_NDVI)

\* C28: for one smoothed series, every sample the 5th/75th-percentile
\* clipper keeps is kept with the same value by the 5th/95th-percentile
\* clipper; the clipper that ran is one of the two, which differ in the
\* high threshold only.
C28_ClippersNested ==
    /\ PercentilesDone =>
          \A k \in 1 .. Len(smoothed) :
             Clipped75(k).mask = 1 => Clipped95(k) = Clipped75(k)
    /\ Clipped =>
          \A k \in 1 .. Len(smoothed) :
             ndviFilteredCollection[k].smoothed_ndvi =
                IF highPercentile = 75 THEN Clipped75(k) ELSE Clipped95(k)

\* A series of which the 75th-percentile clipper keeps one sample and masks
\* another that the 95th-percentile clipper keeps.
C28_Witness ==
    /\ Clipped
    /\ Less(P_75_NDVI, P_95_NDVI)
    /\ \E i, j \in 1 .. Len(smoothed) :
          /\ Clipped75(i).mask = 1
          /\ Clipped95(i) = smoothed[i].smoothed_ndvi
          /\ Clipped75(j).mask = 0
          /\ Clipped95(j).mask = 1

=============================================================================
